---- MODULE Spec2Model ----
(***************************************************************************)
(* Model of vite-plugin-vize: the precompilation cache and virtual-module  *)
(* bridge (npm/vite-plugin-vize/src: compiler.ts, index.ts, utils.ts).     *)
(*                                                                         *)
(* Strings are sequences of tokens.  A token stands for a run of           *)
(* characters that no string operation of the plugin ever splits: "/" is   *)
(* the POSIX separator, ".vue" the extension, "\\0vize:" the sentinel      *)
(* prefix and STYLEQ the query '?vue&type=style'.  Paths follow node:path  *)
(* of the platform, POSIX or win32 (one drive, no UNC paths); the host     *)
(* (Vite, tinyglobby) spells every path it hands over with forward         *)
(* slashes.  The host calls configResolved first, configureServer before   *)
(* buildStart, and delivers change notifications only in a dev session     *)
(* whose startup pass is over; resolveId and load may come at any time.    *)
(* An async hook is one action per stretch between two awaits.             *)
(***************************************************************************)
EXTENDS Integers, Sequences, FiniteSets, TLC

(***************************************************************************)
(* Bounds                                                                  *)
(***************************************************************************)
\* change notifications that may be in flight (between read() and compile)
MaxPending == 1

(***************************************************************************)
(* Generic string operations of String.prototype                          *)
(***************************************************************************)
StartsWith(s, pre) ==
    /\ Len(s) >= Len(pre)
    /\ SubSeq(s, 1, Len(pre)) = pre

EndsWith(s, suf) ==
    /\ Len(s) >= Len(suf)
    /\ SubSeq(s, Len(s) - Len(suf) + 1, Len(s)) = suf

Includes(s, tok) == \E i \in 1..Len(s) : s[i] = tok

\* s.slice(n)
Slice(s, n) == SubSeq(s, n + 1, Len(s))

\* tokens that begin with the character '?'
IsQueryToken(t) == t \in {"?vue&type=style", "?raw"}

\* the query left on the file name
SplitQuery_Keep(s) == s

\* s.split('?')[0]
SplitQuery(s) ==
    IF \E i \in 1..Len(s) : IsQueryToken(s[i])
    THEN LET i == CHOOSE k \in 1..Len(s) :
                     /\ IsQueryToken(s[k])
                     /\ \A j \in 1..(k - 1) : ~IsQueryToken(s[j])
         IN  SubSeq(s, 1, i - 1)
    ELSE s

\* s.replace(tok, by): first occurrence only
ReplaceFirst(s, tok, by) ==
    IF Includes(s, tok)
    THEN LET i == CHOOSE k \in 1..Len(s) :
                     /\ s[k] = tok
                     /\ \A j \in 1..(k - 1) : s[j] # tok
         IN  SubSeq(s, 1, i - 1) \o <<by>> \o SubSeq(s, i + 1, Len(s))
    ELSE s

(***************************************************************************)
(* node:path: path.posix or path.win32, by process.platform                *)
(***************************************************************************)
VARIABLE platform     \* process.platform: "posix" or "win32"

\* path.sep
SEP == IF platform = "win32" THEN "\\" ELSE "/"

\* isPathSeparator: win32 takes both slashes
IsSep(t) == t = "/" \/ (platform = "win32" /\ t = "\\")

\* the drive of the session on win32
Drive == IF platform = "win32" THEN <<"C:">> ELSE <<>>

\* the device a win32 path begins with, and the path after it
Device(p) ==
    IF platform = "win32" /\ Len(p) > 0 /\ p[1] = "C:" THEN <<"C:">> ELSE <<>>

Rest(p) == SubSeq(p, Len(Device(p)) + 1, Len(p))

IsAbsolute(p) == Len(Rest(p)) > 0 /\ IsSep(Rest(p)[1])

\* the segments of p between separators, empty segments dropped:
\* a scan of p from index i, cur the segment being read
RECURSIVE SegmentsFrom(_, _, _, _)
SegmentsFrom(p, i, cur, acc) ==
    IF i > Len(p)
    THEN IF Len(cur) = 0 THEN acc ELSE Append(acc, cur)
    ELSE IF IsSep(p[i])
         THEN SegmentsFrom(p, i + 1, <<>>,
                           IF Len(cur) = 0 THEN acc ELSE Append(acc, cur))
         ELSE SegmentsFrom(p, i + 1, Append(cur, p[i]), acc)

Segments(p) == SegmentsFrom(Rest(p), 1, <<>>, <<>>)

\* normalizeString: resolve "." and ".." segments
RECURSIVE NormalizeSegs(_, _, _)
NormalizeSegs(segs, acc, allowAboveRoot) ==
    IF Len(segs) = 0 THEN acc
    ELSE LET s == Head(segs) IN
         IF s = <<".">> THEN NormalizeSegs(Tail(segs), acc, allowAboveRoot)
         ELSE IF s = <<"..">> THEN
              IF Len(acc) > 0 /\ acc[Len(acc)] # <<"..">>
              THEN NormalizeSegs(Tail(segs), SubSeq(acc, 1, Len(acc) - 1), allowAboveRoot)
              ELSE IF allowAboveRoot
                   THEN NormalizeSegs(Tail(segs), Append(acc, s), allowAboveRoot)
                   ELSE NormalizeSegs(Tail(segs), acc, allowAboveRoot)
         ELSE NormalizeSegs(Tail(segs), Append(acc, s), allowAboveRoot)

\* segments joined by the separator of the platform
RECURSIVE JoinSegs(_)
JoinSegs(segs) ==
    IF Len(segs) = 0 THEN <<>>
    ELSE IF Len(segs) = 1 THEN segs[1]
    ELSE segs[1] \o <<SEP>> \o JoinSegs(Tail(segs))

\* path.normalize: on win32 every separator becomes a backslash
Normalize(p) ==
    IF Len(p) = 0 THEN <<".">>
    ELSE LET abs   == IsAbsolute(p)
             trail == IsSep(p[Len(p)])
             body  == JoinSegs(NormalizeSegs(Segments(p), <<>>, ~abs))
         IN  Device(p) \o
             (IF Len(body) = 0
              THEN IF abs THEN <<SEP>>
                   ELSE IF trail THEN <<".", SEP>> ELSE <<".">>
              ELSE (IF abs THEN <<SEP>> ELSE <<>>) \o body
                   \o (IF trail THEN <<SEP>> ELSE <<>>))

\* process.cwd()
Cwd == Drive \o <<SEP, "r">>

\* path.resolve(base, p): absolute, normalized, with the separator (and the
\* drive) of the platform
Resolve(base, p) ==
    LET joined == IF IsAbsolute(p) THEN Rest(p)
                  ELSE IF IsAbsolute(base) THEN Rest(base) \o <<SEP>> \o p
                  ELSE Rest(Cwd) \o <<SEP>> \o Rest(base) \o <<SEP>> \o p
        body   == JoinSegs(NormalizeSegs(SegmentsFrom(joined, 1, <<>>, <<>>),
                                         <<>>, FALSE))
    IN  Drive \o <<SEP>> \o body

\* path.dirname: a slice of p, its separators kept as they are
Dirname(p) ==
    LET q        == Rest(p)
        nonSlash == {k \in 2..Len(q) : ~IsSep(q[k])}
        ends     == {i \in 2..Len(q) :
                        /\ IsSep(q[i])
                        /\ \E k \in nonSlash : k > i}
    IN  IF Len(p) = 0 THEN <<".">>
        ELSE IF ends = {}
             THEN IF IsAbsolute(p) THEN Device(p) \o <<q[1]>>
                  ELSE IF Len(Device(p)) > 0 THEN Device(p) ELSE <<".">>
             ELSE LET e == CHOOSE i \in ends : \A j \in ends : j <= i
                  IN  IF IsAbsolute(p) /\ e = 2 /\ platform # "win32"
                      THEN <<q[1], q[2]>>
                      ELSE Device(p) \o SubSeq(q, 1, e - 1)

(***************************************************************************)
(* Inputs of the model                                                     *)
(***************************************************************************)
\* const VIRTUAL_PREFIX = '\0vize:'
VIRTUAL_PREFIX == <<"\\0vize:">>

\* the marker tested by id.includes('?vue&type=style')
STYLEQ == "?vue&type=style"

VUE == ".vue"

\* absolute paths as tinyglobby and Vite spell them: forward slashes, and on
\* win32 the drive first
FileA    == Drive \o <<"/", "r", "/", "A", VUE>>
FileB    == Drive \o <<"/", "r", "/", "s", "/", "B", VUE>>
FileMain == Drive \o <<"/", "r", "/", "main", ".ts">>
FileDep  == Drive \o <<"/", "r", "/", "node_modules", "/", "C", VUE>>

\* files the glob of compileAll can report, and files the watcher can report
ScanFiles   == {FileA, FileB}
ChangeFiles == {FileA, FileB, FileMain, FileDep}

\* resolvedConfig.root
ConfigRoot == Drive \o <<"/", "r">>

\* the scan orders glob() can return: every ordering of every subset
ScanOrders ==
    {<<>>, <<FileA>>, <<FileB>>, <<FileA, FileB>>, <<FileB, FileA>>}

\* What a source text is, to the plugin: its raw text (for the scoped test)
\* and what the opaque native compiler answers for it.
ContentTable ==
    [ full  |-> [ text   |-> <<"<template>", "<style", " ", "scoped", ">">>,
                  code   |-> <<"import {h};", "export default", "{full}">>,
                  css    |-> <<".a{}">>,
                  errors |-> 0, throws |-> FALSE ],
      plain |-> [ text   |-> <<"<template>", "<style", ">">>,
                  code   |-> <<"export default", "{plain}">>,
                  css    |-> <<>>,
                  errors |-> 0, throws |-> FALSE ],
      bad   |-> [ text   |-> <<"<template>", "<style", " ", "lang=", "scss", ">">>,
                  code   |-> <<"/*partial*/">>,
                  css    |-> <<".b{}">>,
                  errors |-> 1, throws |-> FALSE ],
      crash |-> [ text   |-> <<"<style", "scoped", ">">>,
                  code   |-> <<>>,
                  css    |-> <<>>,
                  errors |-> 0, throws |-> TRUE ] ]

Contents == DOMAIN ContentTable

\* fs.readFileSync / read() failing
EIO == "EIO"

\* what a read of a file can deliver
Sources == Contents \cup {EIO}

\* the calls the host makes to resolveId: <<id, importer>>; <<>> is "no importer"
ResolveCalls ==
    { <<FileA, <<>>>>, <<FileB, <<>>>>,
      <<Drive \o <<"/", "r", "/", "s", "/", "..", "/", "A", VUE>>, <<>>>>,
      <<<<"..", "/", "A", VUE>>, <<>>>>,
      <<<<"..", "/", "A", VUE>>, FileB>>,
      <<<<"..", "/", "A", VUE>>, VIRTUAL_PREFIX \o FileB>>,
      <<FileA \o <<STYLEQ>>, <<>>>>,
      <<VIRTUAL_PREFIX \o FileB \o <<STYLEQ, "&index=0">>, FileB>>,
      <<FileMain, FileA>>,
      <<VIRTUAL_PREFIX \o FileA, <<>>>> }

\* the ids the host hands to load
LoadIds ==
    { VIRTUAL_PREFIX \o FileA, VIRTUAL_PREFIX \o FileB,
      FileA \o <<STYLEQ>>,
      VIRTUAL_PREFIX \o FileA \o <<STYLEQ>>,
      VIRTUAL_PREFIX \o FileB \o <<STYLEQ, "&index=0">>,
      FileA }

(***************************************************************************)
(* utils.ts                                                                *)
(***************************************************************************)
\* the characters of a path, numbered (stand-in for their bytes)
PathAlphabet ==
    <<"/", "r", "s", "A", "B", "C", "main", ".vue", ".ts", "node_modules",
      ".", "..", "\\0vize:", "?vue&type=style", "&index=0", "?raw", "C:", "\\">>

TokenCode(t) == CHOOSE i \in 1..Len(PathAlphabet) : PathAlphabet[i] = t

\* createHash('sha256').update(filename).digest('hex'): a deterministic
\* digest of the characters of filename, here a 24-bit polynomial hash
RECURSIVE Digest(_, _)
Digest(s, h) ==
    IF Len(s) = 0 THEN h
    ELSE Digest(Tail(s), (h * 31 + TokenCode(Head(s))) % 16777216)

\* generateScopeId
GenerateScopeId(filename) == <<ToString(Digest(filename, 7))>>

\* the default patterns of createFilter: [/\.vue$/] and [/node_modules/]
IncludePatterns == {"vueSuffix"}
ExcludePatterns == {"node_modules"}

PatternTest(pattern, id) ==
    IF pattern = "vueSuffix" THEN EndsWith(id, <<VUE>>)
    ELSE Includes(id, pattern)

\* a filter whose include patterns win over its exclude patterns
Filter_IncludeWins(id) == \E pt \in IncludePatterns : PatternTest(pt, id)

\* the predicate createFilter returns
Filter(id) ==
    LET matchInclude == \E pt \in IncludePatterns : PatternTest(pt, id)
        matchExclude == \E pt \in ExcludePatterns : PatternTest(pt, id)
    IN  matchInclude /\ ~matchExclude

\* JSON.stringify of a string
Quote(s) == <<"\"">> \o s \o <<"\"">>

STYLE_IIFE == "(function(){...getElementById(__vize_css_id__)...})();"
HMR_HEAD   == "if (import.meta.hot) { _sfc_main.__hmrId = "
HMR_ACCEPT == "; import.meta.hot.accept(...); createRecord(...) }"

\* the hot-reload acceptance block appended by generateOutput
HmrBlock(scopeId) == <<HMR_HEAD>> \o Quote(scopeId) \o <<HMR_ACCEPT>>

\* generateOutput with the hot-reload test of line 312 missing !isProduction
GenerateOutput_NoProdTest(compiled, isProd, isDev) ==
    LET hasExportDefault == Includes(compiled.code, "export default")
        out1 == IF hasExportDefault
                THEN ReplaceFirst(compiled.code, "export default", "const _sfc_main =")
                     \o <<"export default _sfc_main;">>
                ELSE compiled.code
        out2 == IF compiled.css # <<>>
                THEN <<"const __vize_css__ = ">> \o Quote(compiled.css)
                     \o <<"const __vize_css_id__ = ">>
                     \o Quote(<<"vize-style-">> \o compiled.scopeId)
                     \o <<STYLE_IIFE>> \o out1
                ELSE out1
    IN  IF isDev /\ hasExportDefault
        THEN out2 \o HmrBlock(compiled.scopeId)
        ELSE out2

\* generateOutput(compiled, isProduction, isDev); isProduction is
\* "true", "false" or "undefined" (configResolved not called yet)
GenerateOutput(compiled, isProd, isDev) ==
    LET hasExportDefault == Includes(compiled.code, "export default")
        out1 == IF hasExportDefault
                THEN ReplaceFirst(compiled.code, "export default", "const _sfc_main =")
                     \o <<"export default _sfc_main;">>
                ELSE compiled.code
        out2 == IF compiled.css # <<>>
                THEN <<"const __vize_css__ = ">> \o Quote(compiled.css)
                     \o <<"const __vize_css_id__ = ">>
                     \o Quote(<<"vize-style-">> \o compiled.scopeId)
                     \o <<STYLE_IIFE>> \o out1
                ELSE out1
    IN  IF isProd # "true" /\ isDev /\ hasExportDefault
        THEN out2 \o HmrBlock(compiled.scopeId)
        ELSE out2

(***************************************************************************)
(* compiler.ts                                                             *)
(***************************************************************************)
\* tokens that begin and end with a word character (for \b)
IsWord(t) == t \in {"<style", "scoped", "scss"}

\* the test without the scoped marker: any style block counts
HasScopedTest_AnyStyle(text) == \E i \in 1..Len(text) : text[i] = "<style"

\* /<style[^>]*\bscoped\b/.test(content)
HasScopedTest(text) ==
    \E i \in 1..Len(text) : \E j \in (i + 1)..Len(text) :
        /\ text[i] = "<style"
        /\ text[j] = "scoped"
        /\ \A k \in (i + 1)..(j - 1) : text[k] # ">"
        /\ ~IsWord(text[j - 1])
        /\ (j < Len(text) => ~IsWord(text[j + 1]))

\* the native compileSfc(content, options): opaque; the css it returns
\* carries the scope attribute it was handed
NativeCompile(content, opts) ==
    LET c == ContentTable[content]
    IN  [ code   |-> c.code,
          css    |-> IF c.css = <<>> THEN <<>>
                     ELSE IF opts.scopeId = <<>> THEN c.css
                     ELSE c.css \o <<"[">> \o opts.scopeId \o <<"]">>,
          errors |-> c.errors ]

\* the artifact with a scope id digested from the file name, not the path
CompiledModule_BaseName(filePath, content, isProd) ==
    LET segs      == Segments(filePath)
        scopeId   == GenerateScopeId(segs[Len(segs)])
        hasScoped == HasScopedTest(ContentTable[content].text)
        result    == NativeCompile(content,
                        [ filename  |-> filePath,
                          sourceMap |-> isProd # "true",
                          ssr       |-> FALSE,
                          scopeId   |-> IF hasScoped THEN <<"data-v-">> \o scopeId
                                        ELSE <<>> ])
    IN  [ code |-> result.code, css |-> result.css,
          scopeId |-> scopeId, hasScoped |-> hasScoped ]

\* the artifact compileFile builds (lines 36-62)
CompiledModule(filePath, content, isProd) ==
    LET scopeId   == GenerateScopeId(filePath)
        hasScoped == HasScopedTest(ContentTable[content].text)
        result    == NativeCompile(content,
                        [ filename  |-> filePath,
                          sourceMap |-> isProd # "true",
                          ssr       |-> FALSE,
                          scopeId   |-> IF hasScoped THEN <<"data-v-">> \o scopeId
                                        ELSE <<>> ])
    IN  [ code |-> result.code, css |-> result.css,
          scopeId |-> scopeId, hasScoped |-> hasScoped ]

\* compileFile throws: loadNative fails, the read fails or the compiler throws
CompileThrows(installed, source) ==
    \/ ~installed
    \/ source = EIO
    \/ ContentTable[source].throws

\* cache.set(key, value)
MapSet(m, key, value) ==
    [k \in DOMAIN m \cup {key} |-> IF k = key THEN value ELSE m[k]]

\* the cache after compileFile(filePath, cache, options, source); a throw
\* leaves it as it was
CompileFile(filePath, c, installed, source, isProd) ==
    IF CompileThrows(installed, source) THEN c
    ELSE MapSet(c, filePath, CompiledModule(filePath, source, isProd))

\* the result list of a source: non-empty error list?
HasErrors(source) ==
    /\ source \in Contents
    /\ ~ContentTable[source].throws
    /\ ContentTable[source].errors > 0

(***************************************************************************)
(* index.ts: the plugin instance                                           *)
(***************************************************************************)
VARIABLES
    cache,            \* Map<string, CompiledModule>
    virtualToReal,    \* Map<string, string>
    isProduction,     \* "undefined" until configResolved, then "true"/"false"
    root,             \* <<>> until configResolved
    server,           \* "null" or "devServer"
    compileSfc,       \* compiler.ts: "null" or "loaded"
    nativeInstalled,  \* environment: can require('@vize/native') succeed
    pc,               \* buildStart: "idle", "globbing" (await glob), "done"
    pending,          \* change notifications awaiting read(), oldest first
    ret,              \* the call just made and what it returned
    document,         \* browser: the style elements of document.head
    initialized,      \* vize-wasm/index.js: let initialized
    initPromise,      \* vize-wasm/index.js: let initPromise ("null" or its state)
    wasmModule,       \* the promise of initWasm: "idle", "loading", "ready", "failed"
    initWasmCalls,    \* how often initWasm was started
    initCalls         \* how often init() was called

wasmVars == <<initialized, initPromise, wasmModule, initWasmCalls, initCalls>>

pluginVars == <<cache, virtualToReal, isProduction, root, server, compileSfc,
                nativeInstalled, pc, pending, platform>>

vars == <<pluginVars, ret, document, wasmVars, platform>>

EmptyMap == [k \in {} |-> <<>>]

\* graph and stale are filled by a settled handleHotUpdate only
Ret(op, id, importer, src, kind, val) ==
    [op |-> op, id |-> id, importer |-> importer, src |-> src,
     kind |-> kind, val |-> val, graph |-> {}, stale |-> ""]

\* loadNative memoises the binding once a load succeeded
LoadNative(loaded, installed) ==
    IF loaded = "loaded" \/ installed THEN "loaded" ELSE "null"

Init ==
    /\ cache = EmptyMap
    /\ virtualToReal = EmptyMap
    /\ isProduction = "undefined"
    /\ root = <<>>
    /\ server = "null"
    /\ compileSfc = "null"
    /\ nativeInstalled \in BOOLEAN
    /\ pc = "idle"
    /\ pending = <<>>
    /\ platform \in {"posix", "win32"}
    /\ ret = Ret("new", <<>>, <<>>, "", "none", <<>>)
    /\ document = <<>>
    /\ initialized = FALSE
    /\ initPromise = "null"
    /\ wasmModule = "idle"
    /\ initWasmCalls = 0
    /\ initCalls = 0

\* configResolved(resolvedConfig): the host calls it first, once
ConfigResolved(prod) ==
    /\ isProduction = "undefined"
    /\ isProduction' = prod
    /\ root' = ConfigRoot
    /\ ret' = Ret("configResolved", <<>>, <<>>, "", "undefined", <<>>)
    /\ UNCHANGED <<cache, virtualToReal, server, compileSfc, nativeInstalled,
                   pc, pending,
                   document, wasmVars, platform>>

\* configureServer(devServer): dev sessions only, before buildStart
ConfigureServer ==
    /\ isProduction # "undefined"
    /\ server = "null"
    /\ pc = "idle"
    /\ server' = "devServer"
    /\ ret' = Ret("configureServer", <<>>, <<>>, "", "undefined", <<>>)
    /\ UNCHANGED <<cache, virtualToReal, isProduction, root, compileSfc,
                   nativeInstalled, pc, pending,
                   document, wasmVars, platform>>

\* buildStart() up to its first suspension: await glob(...)
BuildStart ==
    /\ isProduction # "undefined"
    /\ pc = "idle"
    /\ pc' = "globbing"
    /\ ret' = Ret("buildStart", <<>>, <<>>, "", "pending", <<>>)
    /\ UNCHANGED <<cache, virtualToReal, isProduction, root, server,
                   compileSfc, nativeInstalled, pending,
                   document, wasmVars, platform>>

\* the loop without its try/catch: the first throw ends the pass
RECURSIVE CompileAllLoop_NoCatch(_, _, _, _, _)
CompileAllLoop_NoCatch(files, srcs, c, installed, isProd) ==
    IF Len(files) = 0 \/ CompileThrows(installed, srcs[Head(files)]) THEN c
    ELSE CompileAllLoop_NoCatch(Tail(files), srcs,
             CompileFile(Head(files), c, installed, srcs[Head(files)], isProd),
             installed, isProd)

\* compiles started but not waited for: nothing is stored when buildStart
\* resolves
CompileAllLoop_Detached(files, srcs, c, installed, isProd) == c

\* the for loop of compileAll: one compileFile per file, a throw is caught
RECURSIVE CompileAllLoop(_, _, _, _, _)
CompileAllLoop(files, srcs, c, installed, isProd) ==
    IF Len(files) = 0 THEN c
    ELSE CompileAllLoop(Tail(files), srcs,
             CompileFile(Head(files), c, installed, srcs[Head(files)], isProd),
             installed, isProd)

\* the scan log: <<file, source read>> in scan order
ScanLog(files, srcs) == [i \in 1..Len(files) |-> <<files[i], srcs[files[i]]>>]

\* glob resolves with files; the loop runs to the end; buildStart resolves
CompileAll(files, srcs) ==
    /\ pc = "globbing"
    /\ cache' = CompileAllLoop(files, srcs, cache, nativeInstalled, isProduction)
    /\ compileSfc' = IF Len(files) > 0
                     THEN LoadNative(compileSfc, nativeInstalled)
                     ELSE compileSfc
    /\ pc' = "done"
    /\ ret' = Ret("buildStart", <<>>, <<>>, "", "resolved", ScanLog(files, srcs))
    /\ UNCHANGED <<virtualToReal, isProduction, root, server, nativeInstalled,
                   pending,
                   document, wasmVars, platform>>

\* lines 136-138 without the slice fallback: an unregistered virtual importer
\* is taken as it is
RealImporter_TableOnly(importer, v2r) ==
    IF StartsWith(importer, VIRTUAL_PREFIX) /\ importer \in DOMAIN v2r
    THEN v2r[importer]
    ELSE importer

\* importer -> real importer (lines 136-138)
RealImporter(importer, v2r) ==
    IF StartsWith(importer, VIRTUAL_PREFIX)
    THEN IF importer \in DOMAIN v2r THEN v2r[importer]
         ELSE Slice(importer, Len(VIRTUAL_PREFIX))
    ELSE importer

\* resolveVuePath(id, importer)
ResolveVuePath(id, importer, v2r, rt) ==
    LET resolved ==
            IF IsAbsolute(id) THEN id
            ELSE IF importer # <<>>
                 THEN Resolve(Dirname(RealImporter(importer, v2r)), id)
                 ELSE Resolve(rt, id)
    IN  Normalize(resolved)

\* resolveId without the cache.has test of line 172
ResolveIdResult_NoCacheTest(id, importer, c, v2r, rt) ==
    IF Includes(id, STYLEQ) THEN [kind |-> "id", val |-> id]
    ELSE IF EndsWith(id, <<VUE>>)
         THEN [kind |-> "id",
               val  |-> VIRTUAL_PREFIX \o ResolveVuePath(id, importer, v2r, rt)]
         ELSE [kind |-> "null", val |-> <<>>]

\* what resolveId(id, importer) returns
ResolveIdResult(id, importer, c, v2r, rt) ==
    IF Includes(id, STYLEQ) THEN [kind |-> "id", val |-> id]
    ELSE IF EndsWith(id, <<VUE>>)
         THEN LET resolved == ResolveVuePath(id, importer, v2r, rt)
              IN  IF resolved \in DOMAIN c
                  THEN [kind |-> "id", val |-> VIRTUAL_PREFIX \o resolved]
                  ELSE [kind |-> "null", val |-> <<>>]
         ELSE [kind |-> "null", val |-> <<>>]

\* line 174 storing the id as requested instead of the resolved path
Register_RawId(id, r, v2r) ==
    IF ~Includes(id, STYLEQ) /\ r.kind = "id"
    THEN MapSet(v2r, r.val, id)
    ELSE v2r

\* the table after resolveId(id, importer) returned r: line 174 runs exactly
\* when the virtual id of line 173 is returned
Register(id, r, v2r) ==
    IF ~Includes(id, STYLEQ) /\ r.kind = "id"
    THEN MapSet(v2r, r.val, Slice(r.val, Len(VIRTUAL_PREFIX)))
    ELSE v2r

\* resolveId compiling a .vue file it does not find in the cache
ResolveId_OnDemand(id, importer) ==
    /\ isProduction # "undefined"
    /\ LET r == ResolveIdResult(id, importer, cache, virtualToReal, root)
           miss == ~Includes(id, STYLEQ) /\ EndsWith(id, <<VUE>>) /\ r.kind = "null"
           resolved == ResolveVuePath(id, importer, virtualToReal, root)
       IN  /\ virtualToReal' = Register(id, r, virtualToReal)
           /\ cache' = IF miss
                       THEN CompileFile(resolved, cache, nativeInstalled,
                                        "plain", isProduction)
                       ELSE cache
           /\ ret' = Ret("resolveId", id, importer, "", r.kind, r.val)
    /\ UNCHANGED <<isProduction, root, server, compileSfc,
                   nativeInstalled, pc, pending,
                   document, wasmVars, platform>>

\* resolveId(id, importer)
ResolveId(id, importer) ==
    /\ isProduction # "undefined"
    /\ LET r == ResolveIdResult(id, importer, cache, virtualToReal, root)
       IN  /\ virtualToReal' = Register(id, r, virtualToReal)
           /\ ret' = Ret("resolveId", id, importer, "", r.kind, r.val)
    /\ UNCHANGED <<cache, isProduction, root, server, compileSfc,
                   nativeInstalled, pc, pending,
                   document, wasmVars, platform>>

\* virtualToReal.get(v) ?? v.slice(VIRTUAL_PREFIX.length)
ToRealPath(v, v2r) ==
    IF v \in DOMAIN v2r THEN v2r[v] ELSE Slice(v, Len(VIRTUAL_PREFIX))

\* load without the style-query branch of lines 183-193
LoadResult_NoStyleBranch(id, c, v2r, isProd, srv) ==
    IF StartsWith(id, VIRTUAL_PREFIX) /\ ToRealPath(id, v2r) \in DOMAIN c
    THEN [kind |-> "module",
          val  |-> GenerateOutput(c[ToRealPath(id, v2r)], isProd, srv # "null")]
    ELSE [kind |-> "null", val |-> <<>>]

\* what load(id) returns
LoadResult(id, c, v2r, isProd, srv) ==
    IF Includes(id, STYLEQ)
    THEN LET filename == SplitQuery(id)
             realPath == IF StartsWith(filename, VIRTUAL_PREFIX)
                         THEN ToRealPath(filename, v2r)
                         ELSE filename
         IN  IF realPath \in DOMAIN c /\ c[realPath].css # <<>>
             THEN [kind |-> "string", val |-> c[realPath].css]
             ELSE [kind |-> "string", val |-> <<>>]
    ELSE IF StartsWith(id, VIRTUAL_PREFIX) /\ ToRealPath(id, v2r) \in DOMAIN c
         THEN [kind |-> "module",
               val  |-> GenerateOutput(c[ToRealPath(id, v2r)], isProd,
                                       srv # "null")]
         ELSE [kind |-> "null", val |-> <<>>]

\* load(id)
Load(id) ==
    /\ isProduction # "undefined"
    /\ LET r == LoadResult(id, cache, virtualToReal, isProduction, server)
       IN  ret' = Ret("load", id, <<>>, "", r.kind, r.val)
    /\ UNCHANGED <<cache, virtualToReal, isProduction, root, server,
                   compileSfc, nativeInstalled, pc, pending,
                   document, wasmVars, platform>>

\* does handleHotUpdate take the file (line 214)
Accepts(file) == EndsWith(file, <<VUE>>) /\ Filter(file)

\* handleHotUpdate(ctx) for a file it does not take: returns undefined
HandleHotUpdateSkip(file) ==
    /\ server # "null"
    /\ pc = "done"
    /\ ~Accepts(file)
    /\ ret' = Ret("handleHotUpdate", file, <<>>, "", "undefined", <<>>)
    /\ UNCHANGED <<cache, virtualToReal, isProduction, root, server,
                   compileSfc, nativeInstalled, pc, pending,
                   document, wasmVars, platform>>

\* handleHotUpdate(ctx) up to its suspension: await read(); at most cap
\* notifications wait at a time
HandleHotUpdate(file, cap) ==
    /\ server # "null"
    /\ pc = "done"
    /\ Accepts(file)
    /\ Len(pending) < cap
    /\ pending' = Append(pending, [file |-> file, stale |-> ""])
    /\ ret' = Ret("handleHotUpdate", file, <<>>, "", "pending", <<>>)
    /\ UNCHANGED <<cache, virtualToReal, isProduction, root, server,
                   compileSfc, nativeInstalled, pc,
                   document, wasmVars, platform>>

\* moduleGraph.getModulesByFile(key): a non-empty set of modules or undefined;
\* graph is the set of keys the module graph knows
GetModulesByFile(graph, key) ==
    IF key \in graph THEN [kind |-> "modules", val |-> key]
    ELSE [kind |-> "undefined", val |-> <<>>]

\* the ?? of line 228 tries the raw path first
HotModules_FileFirst(file, graph) ==
    LET byFile == GetModulesByFile(graph, file)
    IN  IF byFile.kind # "undefined" THEN byFile
        ELSE GetModulesByFile(graph, VIRTUAL_PREFIX \o file)

\* the modules handleHotUpdate returns (lines 227-232)
HotModules(file, graph) ==
    LET byVirtual == GetModulesByFile(graph, VIRTUAL_PREFIX \o file)
    IN  IF byVirtual.kind # "undefined" THEN byVirtual
        ELSE GetModulesByFile(graph, file)

\* no try/catch: the exception rejects the promise of the handler
HotUpdateReturn_NoCatch(file, installed, src, graph) ==
    IF CompileThrows(installed, src)
    THEN [kind |-> "rejected", val |-> <<>>]
    ELSE HotModules(file, graph)

\* what the handler returns once read() has settled: an exception of read()
\* or compileFile is caught and logged (line 222), so both paths reach 227
HotUpdateReturn(file, installed, src, graph) ==
    HotModules(file, graph)

\* the keys the module graph may know for a file
GraphsOf(file) == SUBSET {file, VIRTUAL_PREFIX \o file}

\* the sequence without its i-th element
RemoveAt(q, i) == [j \in 1..(Len(q) - 1) |-> IF j < i THEN q[j] ELSE q[j + 1]]

\* observation only: an older notification of the same file that is still
\* waiting when a newer one has written src is marked with that source
MarkStale(q, i, src, wrote) ==
    [j \in 1..Len(q) |->
        IF wrote /\ j < i /\ q[j].file = q[i].file
        THEN [q[j] EXCEPT !.stale = src] ELSE q[j]]

\* a version stamp compared before the write: an overtaken notification
\* leaves the cache alone
HotUpdateWrite_Versioned(n, src, c, installed, isProd) ==
    IF n.stale # "" THEN c
    ELSE CompileFile(n.file, c, installed, src, isProd)

\* the write of a settled notification (lines 217-220): compileFile with the
\* source read, whatever was written since the notification arrived
HotUpdateWrite(n, src, c, installed, isProd) ==
    CompileFile(n.file, c, installed, src, isProd)

\* read() of the i-th waiting notification settles with src (or rejects):
\* compile inside try/catch, then the module lookup
HotUpdateDone(i, src, graph) ==
    /\ i \in 1..Len(pending)
    /\ LET n == pending[i]
           wrote == ~CompileThrows(nativeInstalled, src)
           r == HotUpdateReturn(n.file, nativeInstalled, src, graph)
       IN  /\ pending' = RemoveAt(MarkStale(pending, i, src, wrote), i)
           /\ cache' = HotUpdateWrite(n, src, cache, nativeInstalled,
                                      isProduction)
           /\ compileSfc' = IF src # EIO
                            THEN LoadNative(compileSfc, nativeInstalled)
                            ELSE compileSfc
           /\ ret' = [Ret("handleHotUpdate", n.file, <<>>, src, r.kind, r.val)
                        EXCEPT !.graph = graph,
                               !.stale = IF wrote THEN n.stale ELSE ""]
    /\ UNCHANGED <<virtualToReal, isProduction, root, server, nativeInstalled,
                   pc,
                   document, wasmVars, platform>>

Next ==
    \/ \E prod \in {"true", "false"} : ConfigResolved(prod)
    \/ ConfigureServer
    \/ BuildStart
    \/ \E files \in ScanOrders : \E srcs \in [ScanFiles -> Sources] :
           CompileAll(files, srcs)
    \/ \E call \in ResolveCalls : ResolveId(call[1], call[2])
    \/ \E id \in LoadIds : Load(id)
    \/ \E file \in ChangeFiles : HandleHotUpdateSkip(file)
    \/ \E file \in ChangeFiles : HandleHotUpdate(file, MaxPending)
    \/ \E i \in 1..Len(pending) : \E src \in Sources :
           \E graph \in GraphsOf(pending[i].file) : HotUpdateDone(i, src, graph)

Spec == Init /\ [][Next]_vars

(***************************************************************************)
(* Overlapping change notifications: the plugin in a dev session whose     *)
(* files change faster than read() settles                                 *)
(***************************************************************************)
MaxRace == 2

RaceOrders == {<<>>, <<FileA>>}

RaceSources == {"full", "plain", EIO}

NextRace ==
    \/ ConfigResolved("false")
    \/ ConfigureServer
    \/ BuildStart
    \/ \E files \in RaceOrders : CompileAll(files, [f \in ScanFiles |-> "full"])
    \/ \E file \in ScanFiles : HandleHotUpdate(file, MaxRace)
    \/ \E i \in 1..Len(pending) : \E src \in RaceSources :
           HotUpdateDone(i, src, {})

SpecRace == Init /\ [][NextRace]_vars

(***************************************************************************)
(* The browser: a page that executes synthesized outputs                   *)
(***************************************************************************)
MaxElements == 4

CSS_DECL == "const __vize_css__ = "
CSS_ID_DECL == "const __vize_css_id__ = "

\* the position of the first occurrence of token t in s, 0 when there is none
IndexOf(s, t) ==
    IF \E i \in 1..Len(s) : s[i] = t
    THEN CHOOSE i \in 1..Len(s) : s[i] = t /\ \A j \in 1..(i - 1) : s[j] # t
    ELSE 0

\* does the output begin with the style-injection routine (lines 291-306)
HasStyleRoutine(output) == Len(output) > 0 /\ output[1] = CSS_DECL

\* the values the two const declarations of the output evaluate to: the text
\* between the quotes
CssOfOutput(output) == SubSeq(output, 3, IndexOf(output, CSS_ID_DECL) - 2)

CssIdOfOutput(output) ==
    SubSeq(output, IndexOf(output, CSS_ID_DECL) + 2,
           IndexOf(output, STYLE_IIFE) - 2)

\* document.getElementById(id): the position of the element, 0 for null
GetElementById(doc, id) ==
    IF \E i \in 1..Len(doc) : doc[i].id = id
    THEN CHOOSE i \in 1..Len(doc) : doc[i].id = id /\ \A j \in 1..(i - 1) : doc[j].id # id
    ELSE 0

\* the routine without its getElementById test: always create and append
StyleRoutine_AlwaysAppend(doc, cssId, css) ==
    Append(doc, [id |-> cssId, textContent |-> css])

\* the immediately-invoked function of lines 293-305 on a page
StyleRoutine(doc, cssId, css) ==
    LET style == GetElementById(doc, cssId)
    IN  IF style = 0
        THEN Append(doc, [id |-> cssId, textContent |-> css])
        ELSE [doc EXCEPT ![style].textContent = css]

\* the page evaluates the output generateOutput made of the artifact of
\* file compiled from content src
Execute(file, src, prod, isDev) ==
    /\ Len(document) < MaxElements
    /\ LET output == GenerateOutput(CompiledModule(file, src, prod), prod, isDev)
       IN  /\ document' = IF HasStyleRoutine(output)
                          THEN StyleRoutine(document, CssIdOfOutput(output),
                                            CssOfOutput(output))
                          ELSE document
           /\ ret' = Ret("execute", file, <<>>, src,
                         IF HasStyleRoutine(output) THEN "style" ELSE "none",
                         output)
    /\ UNCHANGED <<pluginVars, wasmVars>>

StyleSources == {"full", "plain", "bad"}

NextStyle ==
    \E file \in ScanFiles : \E src \in StyleSources :
        \E prod \in {"true", "false"} : \E isDev \in BOOLEAN :
            Execute(file, src, prod, isDev)

SpecStyle == Init /\ [][NextStyle]_vars

(***************************************************************************)
(* vize-wasm/index.js: the WASM bindings                                   *)
(***************************************************************************)
MaxInitCalls == 3

\* the exported functions that call ensureInitialized() first; "Compiler" is
\* the constructor of the class
WasmApi == {"compile", "compileVapor", "parseTemplate", "parseSfc",
            "compileSfc", "compileCss", "Compiler"}

NOT_INITIALIZED == "WASM module not initialized. Call await init() first."

\* a guard that never throws
EnsureInitialized_Never(init) == "ok"

\* ensureInitialized(): throws unless initialized
EnsureInitialized(init) == IF ~init THEN "throws" ELSE "ok"

\* an exported function or the constructor: the guard, then the binding
WasmCallResult(fn, init) ==
    IF EnsureInitialized(init) = "throws"
    THEN [kind |-> "throws", val |-> <<NOT_INITIALIZED>>]
    ELSE [kind |-> "binding", val |-> <<"wasm", fn>>]

\* init ignoring initPromise: every call before initialized runs initWasm
InitOutcome_Restart(init, promise) ==
    IF init THEN "resolved" ELSE "started"

\* init running initWasm again once the stored promise has rejected
InitOutcome_Retry(init, promise) ==
    IF init THEN "resolved"
    ELSE IF promise \in {"null", "rejected"} THEN "started"
    ELSE promise

\* init(moduleOrPath): the promise the async function returns follows the
\* outcome given; "started" is the call that ran initWasm
InitOutcome(init, promise) ==
    IF init THEN "resolved"
    ELSE IF promise # "null" THEN promise
    ELSE "started"

\* the object the module variable initPromise refers to, once assigned
INIT_PROMISE == <<"initPromise">>

\* what the caller of the async function init receives on its call-th call:
\* the promise object of that call, which is resolved with the value of the
\* return statement and so settles as that value does; it is never the
\* object returned
AsyncReturn(call, value) == <<"promise", ToString(call)>>

\* init(moduleOrPath), lines 27-41
WasmInit ==
    /\ initCalls < MaxInitCalls
    /\ initCalls' = initCalls + 1
    /\ LET outcome == InitOutcome(initialized, initPromise)
       IN  /\ IF outcome = "started"
              THEN /\ initPromise' = "pending"
                   /\ wasmModule' = "loading"
                   /\ initWasmCalls' = initWasmCalls + 1
              ELSE UNCHANGED <<initPromise, wasmModule, initWasmCalls>>
           /\ ret' = Ret("init", <<>>, <<>>, "", outcome,
                         AsyncReturn(initCalls + 1,
                                     IF outcome = "resolved" THEN <<>>
                                     ELSE INIT_PROMISE))
    /\ UNCHANGED <<pluginVars, document, initialized>>

\* the promise of initWasm fulfils: the module is instantiated
InitWasmResolves ==
    /\ wasmModule = "loading"
    /\ wasmModule' = "ready"
    /\ ret' = Ret("initWasm", <<>>, <<>>, "", "resolved", <<>>)
    /\ UNCHANGED <<pluginVars, document, initialized, initPromise,
                   initWasmCalls, initCalls>>

\* the promise of initWasm rejects; the then-callback is skipped and
\* initPromise rejects with it
InitWasmRejects ==
    /\ wasmModule = "loading"
    /\ wasmModule' = "failed"
    /\ initPromise' = "rejected"
    /\ ret' = Ret("initWasm", <<>>, <<>>, "", "rejected", <<>>)
    /\ UNCHANGED <<pluginVars, document, initialized, initWasmCalls, initCalls>>

\* the then-callback of lines 36-38 runs
InitThen ==
    /\ wasmModule = "ready"
    /\ initPromise = "pending"
    /\ initialized' = TRUE
    /\ initPromise' = "fulfilled"
    /\ ret' = Ret("then", <<>>, <<>>, "", "resolved", <<>>)
    /\ UNCHANGED <<pluginVars, document, wasmModule, initWasmCalls, initCalls>>

\* isInitialized()
IsInitialized ==
    /\ ret' = Ret("isInitialized", <<>>, <<>>, "",
                  IF initialized THEN "true" ELSE "false", <<>>)
    /\ UNCHANGED <<pluginVars, document, wasmVars, platform>>

\* a call of an exported function or of new Compiler()
WasmCall(fn) ==
    /\ LET r == WasmCallResult(fn, initialized)
       IN  ret' = Ret(fn, <<>>, <<>>, "", r.kind, r.val)
    /\ UNCHANGED <<pluginVars, document, wasmVars, platform>>

NextWasm ==
    \/ WasmInit
    \/ InitWasmResolves
    \/ InitWasmRejects
    \/ InitThen
    \/ IsInitialized
    \/ \E fn \in WasmApi : WasmCall(fn)

SpecWasm == Init /\ [][NextWasm]_vars

(***************************************************************************)
(* Properties                                                              *)
(***************************************************************************)
\* the entry of p in c, as a sequence of length 0 or 1
Entry(c, p) == IF p \in DOMAIN c THEN <<c[p]>> ELSE <<>>

\* ret reports a settled handleHotUpdate of an accepted file
HotUpdateSettled(r) ==
    /\ r.op = "handleHotUpdate"
    /\ r.kind # "pending"
    /\ Accepts(r.id)

\* ret reports the end of the startup pass
ScanComplete(r) == r.op = "buildStart" /\ r.kind = "resolved"

\* the path a style-query id or virtual id stands for, by the naming scheme
PathOfId(id) ==
    LET filename == SplitQuery(id)
    IN  IF StartsWith(filename, VIRTUAL_PREFIX)
        THEN Slice(filename, Len(VIRTUAL_PREFIX))
        ELSE filename

IsStyleId(id) == Includes(id, STYLEQ)

\* a virtual module id: the sentinel prefix and a path, no query
IsVirtualId(id) == StartsWith(id, VIRTUAL_PREFIX) /\ ~IsStyleId(id)

\* C1: a compile of p (startup scan or change notification) that gets a
\* non-empty error list from the native compiler leaves the cache entry of p
\* exactly as it was: the previous artifact, or absent.
C1_ErrorLeavesEntry ==
    [][ /\ (HotUpdateSettled(ret') /\ nativeInstalled /\ HasErrors(ret'.src))
           => Entry(cache', ret'.id) = Entry(cache, ret'.id)
        /\ (ScanComplete(ret') /\ nativeInstalled)
           => \A i \in 1..Len(ret'.val) :
                 HasErrors(ret'.val[i][2])
                 => Entry(cache', ret'.val[i][1]) = Entry(cache, ret'.val[i][1])
      ]_vars

\* the files of a scan log whose compile reported errors or threw
FailedInScan(log, installed) ==
    {i \in 1..Len(log) : CompileThrows(installed, log[i][2]) \/ HasErrors(log[i][2])}

\* C2: from an empty cache, after buildStart over N scanned files of which E
\* have a compile error (error list non-empty, or the compile throws), the
\* cache holds exactly N-E entries: the files that compiled without error.
C2_CachePopulation ==
    ScanComplete(ret)
    => LET log    == ret.val
           failed == FailedInScan(log, nativeInstalled)
       IN  /\ Cardinality(DOMAIN cache) = Len(log) - Cardinality(failed)
           /\ DOMAIN cache = {log[i][1] : i \in (1..Len(log)) \ failed}

\* C3 as written: resolveId returns null for every id that does not end in
\* .vue (style-query ids included) and for every .vue id whose resolved path
\* has no cache entry.
C3_NullUnlessCachedVue ==
    (/\ ret.op = "resolveId"
     /\ \/ ~EndsWith(ret.id, <<VUE>>)
        \/ ResolveVuePath(ret.id, ret.importer, virtualToReal, root) \notin DOMAIN cache)
    => ret.kind = "null"

\* C3 amended: resolveId returns a style-query id unchanged; for every other
\* id it returns null when the id does not end in .vue, and when it ends in
\* .vue but its resolved path has no cache entry.
C3_NullUnlessStyleOrCachedVue ==
    ret.op = "resolveId"
    => IF IsStyleId(ret.id)
       THEN ret.kind = "id" /\ ret.val = ret.id
       ELSE (\/ ~EndsWith(ret.id, <<VUE>>)
             \/ ResolveVuePath(ret.id, ret.importer, virtualToReal, root)
                    \notin DOMAIN cache)
            => ret.kind = "null"

\* a .vue id was refused although other files are cached
C3_Witness ==
    /\ ret.op = "resolveId"
    /\ EndsWith(ret.id, <<VUE>>)
    /\ ResolveVuePath(ret.id, ret.importer, virtualToReal, root) \notin DOMAIN cache
    /\ DOMAIN cache # {}
    /\ ret.kind = "null"

\* C4: every virtual module id resolveId has returned, and every key of
\* virtualToReal, is the sentinel prefix followed by a path that has a cache
\* entry.
C4_VirtualIdsAreCached ==
    /\ \A v \in DOMAIN virtualToReal :
          /\ StartsWith(v, VIRTUAL_PREFIX)
          /\ Slice(v, Len(VIRTUAL_PREFIX)) \in DOMAIN cache
    /\ (ret.op = "resolveId" /\ ret.kind = "id" /\ IsVirtualId(ret.val))
       => Slice(ret.val, Len(VIRTUAL_PREFIX)) \in DOMAIN cache

\* resolveId returned a virtual id for a relative import
C4_Witness ==
    /\ ret.op = "resolveId"
    /\ ret.kind = "id"
    /\ IsVirtualId(ret.val)
    /\ ~IsAbsolute(ret.id)
    /\ ret.val \in DOMAIN virtualToReal

\* C5 as written: for every cached path p, the virtual id of p maps back to
\* p as load maps it, registered in virtualToReal or not; resolveId(p) returns
\* that virtual id and load of it serves the artifact cached for p.
C5_RoundTrip ==
    /\ \A p \in DOMAIN cache :
          /\ ToRealPath(VIRTUAL_PREFIX \o p, virtualToReal) = p
          /\ LET r == ResolveIdResult(p, <<>>, cache, virtualToReal, root)
             IN  /\ r.kind = "id"
                 /\ LoadResult(r.val, cache, Register(p, r, virtualToReal),
                               isProduction, server)
                    = [kind |-> "module",
                       val  |-> GenerateOutput(cache[p], isProduction,
                                               server # "null")]
    /\ (ret.op = "load" /\ IsVirtualId(ret.id) /\ PathOfId(ret.id) \in DOMAIN cache)
       => /\ ret.kind = "module"
          /\ ret.val = GenerateOutput(cache[PathOfId(ret.id)], isProduction,
                                      server # "null")

\* C6 as written: load returns the synthesized output for a virtual id with a
\* cache entry, the cached css for a style-query id with cached css, and null
\* in every other case.
C6_LoadOrNull ==
    ret.op = "load"
    => LET p == PathOfId(ret.id)
       IN  IF IsVirtualId(ret.id) /\ p \in DOMAIN cache
           THEN ret.kind = "module"
                /\ ret.val = GenerateOutput(cache[p], isProduction, server # "null")
           ELSE IF IsStyleId(ret.id) /\ p \in DOMAIN cache /\ cache[p].css # <<>>
           THEN ret.kind = "string" /\ ret.val = cache[p].css
           ELSE ret.kind = "null"

\* C6 amended: as C6, but a style-query id whose path has no cache entry or
\* no css gets the empty string; null is returned for every id that is
\* neither a style-query id nor a virtual id with a cache entry.
C6_LoadOrEmptyOrNull ==
    ret.op = "load"
    => LET p == PathOfId(ret.id)
       IN  IF IsStyleId(ret.id)
           THEN ret.kind = "string"
                /\ ret.val = (IF p \in DOMAIN cache THEN cache[p].css ELSE <<>>)
           ELSE IF IsVirtualId(ret.id) /\ p \in DOMAIN cache
           THEN ret.kind = "module"
                /\ ret.val = GenerateOutput(cache[p], isProduction, server # "null")
           ELSE ret.kind = "null"

\* load answered a style-query id of an uncached path while others are cached
C6_Witness ==
    /\ ret.op = "load"
    /\ IsStyleId(ret.id)
    /\ PathOfId(ret.id) \notin DOMAIN cache
    /\ DOMAIN cache # {}
    /\ ret.kind = "string"
    /\ ret.val = <<>>

StyleSuffixes == {<<STYLEQ>>, <<STYLEQ, "&index=0">>}

C8_CompilesOnDemand ==
    (/\ ret.op = "resolveId"
     /\ ~IsStyleId(ret.id)
     /\ EndsWith(ret.id, <<VUE>>)
     /\ nativeInstalled
     /\ \E i \in 1..Len(pending) :
           pending[i].file =
              ResolveVuePath(ret.id, ret.importer, virtualToReal, root))
    => ret.kind = "id"

\* C9: the artifact cached under p has scopeId = the digest of p, whatever
\* content was compiled and however often; the hot-reload id in the output
\* load returns for p is that same digest.
C9_ScopeIdIsDigestOfPath ==
    /\ \A p \in DOMAIN cache : cache[p].scopeId = GenerateScopeId(p)
    /\ (ret.op = "load" /\ ret.kind = "module" /\ Includes(ret.val, HMR_HEAD))
       => \E i \in 1..Len(ret.val) :
             /\ ret.val[i] = HMR_HEAD
             /\ SubSeq(ret.val, i, Len(ret.val))
                = HmrBlock(GenerateScopeId(PathOfId(ret.id)))

\* a change notification recompiled a file in a subdirectory
C9_Witness ==
    /\ HotUpdateSettled(ret)
    /\ ret.id = FileB
    /\ ret.id \in DOMAIN cache
    /\ ret.src \in Contents
    /\ cache[ret.id].code = ContentTable[ret.src].code

\* C10: the output load returns for a cached virtual id contains the
\* hot-reload acceptance block iff the build is not production, configureServer
\* was called and the artifact's code contains a default export.
C10_HmrBlockIff ==
    (ret.op = "load" /\ ret.kind = "module")
    => (Includes(ret.val, HMR_HEAD)
        <=> /\ isProduction # "true"
            /\ server # "null"
            /\ Includes(cache[PathOfId(ret.id)].code, "export default"))

\* a dev session in production mode got output with a default export and no block
C10_Witness ==
    /\ ret.op = "load"
    /\ ret.kind = "module"
    /\ isProduction = "true"
    /\ server # "null"
    /\ Includes(cache[PathOfId(ret.id)].code, "export default")
    /\ ~Includes(ret.val, HMR_HEAD)

\* C20: every entry (v, r) of virtualToReal has r = v without VIRTUAL_PREFIX,
\* so the table lookup and the prefix-strip fallback of resolveVuePath and
\* load give the same real path for every virtual id.
C20_TableAgreesWithStrip ==
    /\ \A v \in DOMAIN virtualToReal :
          /\ StartsWith(v, VIRTUAL_PREFIX)
          /\ virtualToReal[v] = Slice(v, Len(VIRTUAL_PREFIX))
    /\ \A id \in LoadIds \cup DOMAIN virtualToReal :
          StartsWith(id, VIRTUAL_PREFIX)
          => ToRealPath(id, virtualToReal) = ToRealPath(id, EmptyMap)

\* resolveId of a relative spelling registered an entry
C20_Witness ==
    /\ ret.op = "resolveId"
    /\ ret.kind = "id"
    /\ ~IsAbsolute(ret.id)
    /\ ret.val \in DOMAIN virtualToReal

\* the scan log read back: the files in reverse scan order, and the source
\* each file was read with
LogReversed(log) == [i \in 1..Len(log) |-> log[Len(log) + 1 - i][1]]

LogSources(log) ==
    [f \in {log[i][1] : i \in 1..Len(log)} |->
        log[CHOOSE i \in 1..Len(log) : log[i][1] = f][2]]

\* C12: when buildStart resolves, the cache holds the artifact of every
\* scanned file whose compile succeeded; the resulting cache is the same for
\* the reverse scan order; once buildStart has resolved, the only writes to the
\* cache are those of change notifications (the startup pass writes nothing
\* after its signal).
C12_ScanCompleteSignal ==
    [][ /\ ScanComplete(ret')
           => /\ \A i \in 1..Len(ret'.val) :
                    ~CompileThrows(nativeInstalled, ret'.val[i][2])
                    => /\ ret'.val[i][1] \in DOMAIN cache'
                       /\ cache'[ret'.val[i][1]]
                          = CompiledModule(ret'.val[i][1], ret'.val[i][2],
                                           isProduction)
              /\ cache' = CompileAllLoop(LogReversed(ret'.val),
                                         LogSources(ret'.val), cache,
                                         nativeInstalled, isProduction)
              /\ pc' = "done"
        /\ (pc = "done" /\ cache' # cache) => HotUpdateSettled(ret')
        /\ pc = "done" => pc' = "done"
      ]_vars

\* a scan of two files, both stored, has completed
C12_Witness ==
    /\ ScanComplete(ret)
    /\ Len(ret.val) = 2
    /\ DOMAIN cache = {FileA, FileB}
    /\ pc = "done"

\* the positions of a scan log whose file failed by itself: its read or its
\* compile threw although the native compiler is there
FailedFiles(log) ==
    {j \in 1..Len(log) : CompileThrows(TRUE, log[j][2])}

\* C13: with the native compiler present, a scanned file whose read or compile
\* throws, at whatever position of the scan, leaves buildStart resolving
\* normally and every other scanned file compiled and cached.
C13_FailureIsPerFile ==
    /\ ret.op = "buildStart" => ret.kind \in {"pending", "resolved"}
    /\ (ScanComplete(ret) /\ nativeInstalled)
       => \A j \in FailedFiles(ret.val) :
             \A i \in (1..Len(ret.val)) \ FailedFiles(ret.val) :
                /\ pc = "done"
                /\ ret.val[i][1] \in DOMAIN cache
                /\ cache[ret.val[i][1]]
                   = CompiledModule(ret.val[i][1], ret.val[i][2], isProduction)

\* the first file of a scan of two threw and the second is cached
C13_Witness ==
    /\ ScanComplete(ret)
    /\ nativeInstalled
    /\ Len(ret.val) = 2
    /\ 1 \in FailedFiles(ret.val)
    /\ ret.val[2][1] \in DOMAIN cache
    /\ ret.val[1][1] \notin DOMAIN cache

\* C14 as written: a startup pass that needs the native compiler and cannot
\* load it does not complete normally.
C14_MissingNativeAborts ==
    (ScanComplete(ret) /\ Len(ret.val) > 0) => nativeInstalled

\* C15: handleHotUpdate never rejects: when read() fails or compileFile throws
\* (compiler crash, native compiler missing) the exception is caught and the
\* handler still returns what the module lookup gives, modules or undefined;
\* the cache entry of the file is what it was.
C15_HotUpdateNeverThrows ==
    [][ /\ (ret'.op = "handleHotUpdate")
           => ret'.kind \in {"pending", "modules", "undefined"}
        /\ (HotUpdateSettled(ret') /\ CompileThrows(nativeInstalled, ret'.src))
           => /\ ret'.kind = HotModules(ret'.id, ret'.graph).kind
              /\ ret'.val = HotModules(ret'.id, ret'.graph).val
              /\ cache' = cache
      ]_vars

\* a change notification whose read() failed returned the modules of the file
C15_Witness ==
    /\ HotUpdateSettled(ret)
    /\ ret.src = EIO
    /\ ret.kind = "modules"
    /\ nativeInstalled

\* C16: for an accepted .vue file, handleHotUpdate returns the modules
\* registered under the virtual id; when there are none, those registered
\* under the raw path; it returns undefined exactly when neither key has
\* modules.
C16_VirtualThenRawModules ==
    HotUpdateSettled(ret)
    => LET virtualId == VIRTUAL_PREFIX \o ret.id
       IN  /\ virtualId \in ret.graph
              => (ret.kind = "modules" /\ ret.val = virtualId)
           /\ (virtualId \notin ret.graph /\ ret.id \in ret.graph)
              => (ret.kind = "modules" /\ ret.val = ret.id)
           /\ ret.kind = "undefined"
              <=> (virtualId \notin ret.graph /\ ret.id \notin ret.graph)

\* the module graph knew the file under its raw path only
C16_Witness ==
    /\ HotUpdateSettled(ret)
    /\ ret.graph = {ret.id}
    /\ ret.kind = "modules"
    /\ ret.val = ret.id

\* C17: a change notification whose compile does not throw stores its own
\* artifact when its read() settles, also when a notification of the same
\* path that arrived later has already stored a newer one: the last write
\* wins, in whichever order the two settle, and no other entry changes.
C17_LastWriteWins ==
    [][ (HotUpdateSettled(ret') /\ ~CompileThrows(nativeInstalled, ret'.src))
        => /\ ret'.id \in DOMAIN cache'
           /\ cache'[ret'.id] = CompiledModule(ret'.id, ret'.src, isProduction)
           /\ \A p \in DOMAIN cache \ {ret'.id} :
                 p \in DOMAIN cache' /\ cache'[p] = cache[p]
      ]_vars

\* both notifications of one path have finished and the cache holds the
\* artifact of the one that arrived first, not of the newer one
C17_Witness ==
    /\ HotUpdateSettled(ret)
    /\ Len(pending) = 0
    /\ ret.stale # ""
    /\ ret.stale # ret.src
    /\ cache[ret.id] = CompiledModule(ret.id, ret.src, isProduction)
    /\ cache[ret.id] # CompiledModule(ret.id, ret.stale, isProduction)

\* the elements of the page with the given id
ElementsWithId(doc, id) == {i \in 1..Len(doc) : doc[i].id = id}

\* C11: however often and in whatever order the style routines of outputs
\* are executed, the page has at most one style element per id
\* 'vize-style-<scopeId>', and after an execution the element of the executed
\* artifact's scopeId exists once and its text is the css of that artifact.
C11_OneStylePerScope ==
    /\ \A i, j \in 1..Len(document) :
          document[i].id = document[j].id => i = j
    /\ (ret.op = "execute" /\ ContentTable[ret.src].css # <<>>)
       => LET id == <<"vize-style-">> \o GenerateScopeId(ret.id)
          IN  /\ Cardinality(ElementsWithId(document, id)) = 1
              /\ \A i \in ElementsWithId(document, id) :
                    document[i].textContent
                    = CompiledModule(ret.id, ret.src, "false").css

\* the routine ran again for the scopeId of the first element, and the page
\* has elements for two scopeIds
C11_Witness ==
    /\ ret.op = "execute"
    /\ ret.kind = "style"
    /\ Len(document) = 2
    /\ document[1].id = <<"vize-style-">> \o GenerateScopeId(ret.id)
    /\ document[1].textContent = CompiledModule(ret.id, "full", "false").css
    /\ ret.src = "full"
    /\ document[2].textContent = CompiledModule(FileB, "bad", "false").css

\* C19: a call of compile, compileVapor, parseTemplate, parseSfc, compileSfc,
\* compileCss or new Compiler() made before the initialisation of the WASM
\* module has resolved throws and does not reach the binding; initialized
\* (what isInitialized() returns) is true only after it has resolved.
C19_InitBeforeUse ==
    /\ initialized => (wasmModule = "ready" /\ initPromise = "fulfilled")
    /\ ret.op \in WasmApi
       => /\ ret.kind \in {"throws", "binding"}
          /\ wasmModule # "ready" => ret.kind = "throws"
          /\ ret.kind = "binding" => ret.val = <<"wasm", ret.op>>
    /\ (ret.op = "isInitialized" /\ ret.kind = "true") => wasmModule = "ready"

\* new Compiler() was called while initWasm was still loading, and threw
C19_Witness ==
    /\ ret.op = "Compiler"
    /\ ret.kind = "throws"
    /\ wasmModule = "loading"
    /\ initPromise = "pending"

\* C18 as written: every cache key is a canonical path (absolute and
\* normalized by the platform's path.normalize), no two keys are spellings of
\* one file, and resolveId never misses an entry a compile stored for the
\* file the id resolves to.
C18_CanonicalKeys ==
    /\ \A k \in DOMAIN cache : IsAbsolute(k) /\ Normalize(k) = k
    /\ \A k1, k2 \in DOMAIN cache : Normalize(k1) = Normalize(k2) => k1 = k2
    /\ (/\ ret.op = "resolveId"
        /\ ~IsStyleId(ret.id)
        /\ EndsWith(ret.id, <<VUE>>)
        /\ \E k \in DOMAIN cache :
              Normalize(k) = ResolveVuePath(ret.id, ret.importer,
                                            virtualToReal, root))
       => ret.kind = "id"

\* ret reports resolveId of a relative .vue id
RelativeVueCall(r) ==
    /\ r.op = "resolveId"
    /\ ~IsStyleId(r.id)
    /\ EndsWith(r.id, <<VUE>>)
    /\ ~IsAbsolute(r.id)

\* C21: for a relative .vue id and an importer path q, resolveId with the
\* virtual id of q as importer returns what it returns with q itself, the id
\* being resolved against the directory of q, registered in virtualToReal or
\* not; with no importer the id is resolved against the configured root.
C21_VirtualImporterAsReal ==
    /\ (RelativeVueCall(ret) /\ ret.importer # <<>>)
       => LET q == PathOfId(ret.importer)
              asReal    == ResolveIdResult(ret.id, q, cache, virtualToReal, root)
              asVirtual == ResolveIdResult(ret.id, VIRTUAL_PREFIX \o q, cache,
                                           virtualToReal, root)
              target    == Normalize(Resolve(Dirname(q), ret.id))
          IN  /\ asReal = asVirtual
              /\ ret.kind = asReal.kind /\ ret.val = asReal.val
              /\ ret.kind = "id" <=> target \in DOMAIN cache
              /\ ret.kind = "id" => ret.val = VIRTUAL_PREFIX \o target
    /\ (RelativeVueCall(ret) /\ ret.importer = <<>>)
       => LET target == Normalize(Resolve(ConfigRoot, ret.id))
          IN  /\ ret.kind = "id" <=> target \in DOMAIN cache
              /\ ret.kind = "id" => ret.val = VIRTUAL_PREFIX \o target

\* a relative import from a virtual importer that was never registered was
\* resolved to a cached file
C21_Witness ==
    /\ RelativeVueCall(ret)
    /\ StartsWith(ret.importer, VIRTUAL_PREFIX)
    /\ ret.importer \notin DOMAIN virtualToReal
    /\ ret.kind = "id"
    /\ ret.val = VIRTUAL_PREFIX \o FileA

\* C22 as written: resolveId of the virtual id of a cached path p strips the
\* prefix, resolves to p and returns that same virtual id.  Stated for POSIX,
\* where the cache keys are canonical paths.
C22_ResolveIdIdempotent ==
    (/\ platform = "posix"
     /\ ret.op = "resolveId"
     /\ IsVirtualId(ret.id)
     /\ EndsWith(ret.id, <<VUE>>)
     /\ PathOfId(ret.id) \in DOMAIN cache)
    => (ret.kind = "id" /\ ret.val = ret.id)

\* a source text with a style block whose tag carries the attribute scoped
HasScopedStyleBlock(src) ==
    LET text == ContentTable[src].text
    IN  \E i \in 1..Len(text) : \E j \in (i + 1)..Len(text) :
            /\ text[i] = "<style"
            /\ text[j - 1] = " "
            /\ text[j] = "scoped"
            /\ \A k \in i..j : text[k] # ">"

\* what compiling src for path p must have stored: the flag is the result of
\* the test, and the css the compiler returned carries the attribute
\* data-v-<scopeId(p)> exactly when the compiler was handed it
ScopedAsTested(p, src) ==
    LET scoped == HasScopedStyleBlock(src)
        attr   == <<"[", "data-v-">> \o GenerateScopeId(p) \o <<"]">>
        css    == ContentTable[src].css
    IN  /\ p \in DOMAIN cache
        /\ cache[p].hasScoped = scoped
        /\ cache[p].css = IF scoped /\ css # <<>> THEN css \o attr ELSE css

\* C23: every compile of p (from the override source of a change
\* notification, or from the file read by the scan) hands the compiler
\* 'data-v-' + scopeId(p) exactly when the source text has a style block with
\* the scoped marker, and nothing otherwise; the artifact's hasScoped flag is
\* the result of that test.
C23_ScopeAttrIffScoped ==
    /\ (HotUpdateSettled(ret) /\ ~CompileThrows(nativeInstalled, ret.src))
       => ScopedAsTested(ret.id, ret.src)
    /\ ScanComplete(ret)
       => \A i \in 1..Len(ret.val) :
             ~CompileThrows(nativeInstalled, ret.val[i][2])
             => ScopedAsTested(ret.val[i][1], ret.val[i][2])

\* a change notification recompiled a file from a source with an unscoped
\* style block, after the scan had compiled another with a scoped one
C23_Witness ==
    /\ HotUpdateSettled(ret)
    /\ ret.src = "bad"
    /\ ret.id \in DOMAIN cache
    /\ ~cache[ret.id].hasScoped
    /\ cache[ret.id].css = ContentTable["bad"].css
    /\ \E p \in DOMAIN cache : cache[p].hasScoped /\ cache[p].css # <<>>

Rejected(file) ==
    \/ ~EndsWith(file, <<VUE>>)
    \/ Includes(file, "node_modules")

\* C25: handleHotUpdate(file) leaves every cache entry of another path and
\* the whole virtualToReal table as they were; for a file without the .vue
\* suffix or rejected by the filter (an exclude match wins over an include
\* match) it leaves the whole cache as it was, compiles nothing and returns
\* undefined.
C25_HotUpdateFrame ==
    [][ ret'.op = "handleHotUpdate"
        => /\ virtualToReal' = virtualToReal
           /\ DOMAIN cache' \subseteq DOMAIN cache \cup {ret'.id}
           /\ \A p \in DOMAIN cache \ {ret'.id} :
                 p \in DOMAIN cache' /\ cache'[p] = cache[p]
           /\ Rejected(ret'.id)
              => /\ cache' = cache
                 /\ compileSfc' = compileSfc
                 /\ pending' = pending
                 /\ ret'.kind = "undefined"
      ]_vars

\* a change of a .vue file under node_modules was ignored
C25_Witness ==
    /\ ret.op = "handleHotUpdate"
    /\ ret.id = FileDep
    /\ ret.kind = "undefined"
    /\ DOMAIN cache # {}

\* C26 as written: initWasm is started at most once, and an init() call made
\* while the initialisation is pending returns the very promise object stored
\* in initPromise.
C26_SamePendingPromise ==
    /\ initWasmCalls <= 1
    /\ (ret.op = "init" /\ ret.kind = "pending") => ret.val = INIT_PROMISE

\* C26: across any number of init() calls, sequential or overlapping, initWasm
\* is started at most once, by the first call; a call made while the
\* initialisation is pending starts nothing and returns a promise of its own
\* that follows the stored pending promise (the async function never returns
\* the stored object itself); a call made once initialized is set returns a
\* promise that resolves at once.
C26_InitStartedOnce ==
    /\ initWasmCalls <= 1
    /\ initWasmCalls = 1 <=> initCalls >= 1
    /\ ret.op = "init"
       => /\ ret.kind \in {"started", "pending", "rejected", "resolved"}
          /\ ret.val = AsyncReturn(initCalls, INIT_PROMISE)
          /\ ret.val # INIT_PROMISE
          /\ ret.kind = "started" <=> initCalls = 1
          /\ ret.kind = "pending"
             => initPromise = "pending" /\ wasmModule \in {"loading", "ready"}
          /\ ret.kind = "resolved" <=> initialized

\* the third init() call overlaps the initialisation the first one started
C26_Witness ==
    /\ ret.op = "init"
    /\ ret.kind = "pending"
    /\ initCalls = 3
    /\ initWasmCalls = 1
    /\ wasmModule = "loading"

\* C27 as written: once initWasm has failed, initialized stays false, initWasm
\* is not run again, the api keeps throwing, and every later init() call
\* returns the very rejected promise object stored in initPromise.
C27_SameRejectedPromise ==
    [][wasmModule = "failed"
       => /\ wasmModule' = "failed"
          /\ ~initialized'
          /\ initWasmCalls' = initWasmCalls
          /\ ret'.op = "init" => ret'.val = INIT_PROMISE
          /\ ret'.op \in WasmApi => ret'.kind = "throws"]_vars

\* C27: once initWasm has failed the failure is permanent: initialized stays
\* false, the stored promise stays rejected, initWasm is never run again,
\* every later init() call returns a promise of its own that rejects as the
\* stored promise did, and every function of the api and new Compiler() throw
\* the not-initialized error.
C27_FailurePermanent ==
    [][wasmModule = "failed"
       => /\ wasmModule' = "failed"
          /\ ~initialized /\ ~initialized'
          /\ initPromise = "rejected" /\ initPromise' = "rejected"
          /\ initWasmCalls' = initWasmCalls
          /\ ret'.op = "init"
             => ret'.kind = "rejected" /\ ret'.val # INIT_PROMISE
          /\ ret'.op \in WasmApi
             => ret'.kind = "throws" /\ ret'.val = <<NOT_INITIALIZED>>
          /\ ret'.op = "isInitialized" => ret'.kind = "false"]_vars

\* a second init() call after the failure got a rejected promise
C27_Witness ==
    /\ wasmModule = "failed"
    /\ ret.op = "init"
    /\ ret.kind = "rejected"
    /\ initCalls >= 2
    /\ initWasmCalls = 1
====
